---- MODULE Spec2Model ----
(***************************************************************************)
(* Model of primal-crossbeam (src/src/lib.rs): a producer closure drains   *)
(* an iterator into a crossbeam channel while the caller holds the         *)
(* Receiver and the JoinHandle.                                            *)
(*                                                                         *)
(* Producer closure (lib.rs 22-28 and 40-46):                              *)
(*     for x in it { if s.send(x).is_err() { return; } }                   *)
(* One action per step of that loop (it.next() -> Some / None, send -> Ok  *)
(* / Err), one per caller operation (thread_spawn, dropping the closure,   *)
(* r.recv(), drop(r), thread.join()).  A blocking call is an action that   *)
(* is disabled while the call cannot complete.                             *)
(***************************************************************************)
EXTENDS Integers, Sequences, FiniteSets, TLC

\* ---- bounds of the exploration -------------------------------------------
MaxLen == 5        \* longest finite sequence fed to a bridge
MaxCap == 3        \* largest capacity given to from_iterator_bounded
MaxDraw == 4       \* items drawn from Primes::all() while the receiver lives
MaxLimit == 10     \* largest limit given to primes_bounded_approx
MaxHigh == 5       \* largest high returned by estimate_prime_pi
SieveSlack == 1    \* how far Sieve::new(limit) may sieve past limit

NoItem == 0        \* "no value held" (every item is >= 1)

\* The bridges are generic in the item type and never inspect an item; two
\* distinguishable values are enough to expose a lost, repeated or swapped
\* item.
Items == {1, 2}

VARIABLES
    kind,        \* which constructor built the bridge
    src,         \* the iterator's items as built (<<>> for Primes::all())
    cap,         \* capacity of the bounded channel (0 for unbounded())
    limit,       \* argument of the bounded prime generators (0 otherwise)
    pc,          \* producer: Created, Next, Send, Exhausted, Aborted, Discarded
    idx,         \* number of items drawn from the iterator so far
    x,           \* the item bound by `for x in it`, not yet sent
    queue,       \* the channel's buffer, oldest first
    sAlive,      \* the Sender `s` has not been dropped
    rAlive,      \* the Receiver `r` has not been dropped
    received,    \* items returned by r.recv() so far, in order
    closedSeen,  \* r.recv() has returned Err(RecvError)
    cpc,         \* caller: idle, or joining (inside thread.join())
    joinResult,  \* none, or Ok once thread.join() returned
    sends,       \* number of s.send(x) calls that returned Ok
    failed,      \* number of s.send(x) calls that returned Err
    afterDrop,   \* number of items drawn after drop(r)
    ov           \* the WithObj captured by the closure (NoWithObj if none)

vars == <<kind, src, cap, limit, pc, idx, x, queue, sAlive, rAlive, received,
          closedSeen, cpc, joinResult, sends, failed, afterDrop, ov>>

\* ---- pure helpers --------------------------------------------------------
IsPrime(n) == n > 1 /\ \A d \in 2..(n - 1) : n % d # 0

RECURSIVE NextPrimeFrom(_)
NextPrimeFrom(n) == IF IsPrime(n) THEN n ELSE NextPrimeFrom(n + 1)

\* Primes::all(): the i-th item (i >= 1) of the ascending primes.
RECURSIVE NthPrime(_)
NthPrime(i) == IF i = 1 THEN 2 ELSE NextPrimeFrom(NthPrime(i - 1) + 1)

\* Sieve::primes_from(s, 0): the primes the sieve knows, ascending.
RECURSIVE PrimesUpTo(_)
PrimesUpTo(n) ==
    IF n < 2 THEN <<>>
    ELSE IF IsPrime(n) THEN Append(PrimesUpTo(n - 1), n) ELSE PrimesUpTo(n - 1)

\* Iterator::take(n)
Take(s, n) == IF n >= Len(s) THEN s ELSE SubSeq(s, 1, n)

\* Iterator::take_while(|p| p <= n)
RECURSIVE TakeWhileLeq(_, _)
TakeWhileLeq(s, n) ==
    IF s = <<>> \/ Head(s) > n THEN <<>>
    ELSE <<Head(s)>> \o TakeWhileLeq(Tail(s), n)

SeqsUpTo(S, n) == UNION {[1..k -> S] : k \in 0..n}

Bounded == kind \in {"from_iterator_bounded", "primes_bounded_approx",
                    "primes_bounded"}

\* ---- WithObj (lib.rs 100-118) --------------------------------------------
\* heap addresses Box::new may return; the code never compares or orders
\* addresses, so two are enough to tell "same cell" from "another cell"
Addrs == {1, 2}
\* where the by-value parameter `obj` of WithObj::new lived; dead on return
StackAddr == 0

NoWithObj ==
    [at |-> "none", obj |-> <<>>, obj_box |-> 0, boxLive |-> FALSE,
     value |-> 0, valueLive |-> FALSE, make |-> "none", arg |-> 0,
     allocs |-> 0, freedUnderView |-> FALSE]

WithObjNewBorrowsLocal(obj, a, make, arg) ==
    LET value == StackAddr
        obj_box == a
    IN  [at |-> "closure", obj |-> obj, obj_box |-> obj_box, boxLive |-> TRUE,
         value |-> value, valueLive |-> TRUE, make |-> make, arg |-> arg,
         allocs |-> 1, freedUnderView |-> FALSE]

\* WithObj::new(obj, make_value): Box::new(obj) returns address a, then
\* make_value is handed a reference to the boxed value.
WithObjNew(obj, a, make, arg) ==
    LET obj_box == a
        value == obj_box
    IN  [at |-> "closure", obj |-> obj, obj_box |-> obj_box, boxLive |-> TRUE,
         value |-> value, valueLive |-> TRUE, make |-> make, arg |-> arg,
         allocs |-> 1, freedUnderView |-> FALSE]

MoveWithObjInline(o) ==
    IF o.at = "none" THEN o
    ELSE [o EXCEPT !.at = "thread",
                   !.obj_box = CHOOSE a \in Addrs : a # o.obj_box,
                   !.allocs = o.allocs + 1]

\* thread::spawn(f) moves the closure, and the WithObj in it, to the new
\* thread: the Box pointer and the view are copied, the heap is untouched.
MoveWithObj(o) == IF o.at = "none" THEN o ELSE [o EXCEPT !.at = "thread"]

\* drop of the field `value`
DropValue(o) == [o EXCEPT !.valueLive = FALSE]

\* drop of the field `obj_box`: the heap cell is freed
DropObjBox(o) ==
    [o EXCEPT !.boxLive = FALSE, !.freedUnderView = o.valueLive]

DropWithObjBoxFirst(o) ==
    IF o.at = "none" THEN o
    ELSE [DropValue(DropObjBox(o)) EXCEPT !.at = "dropped"]

\* drop of a WithObj: fields are dropped in declaration order, value first
DropWithObj(o) ==
    IF o.at = "none" THEN o
    ELSE [DropObjBox(DropValue(o)) EXCEPT !.at = "dropped"]

\* the view's reference points at the live boxed value
RefValid(o) == o.boxLive /\ o.value = o.obj_box

\* the items the view built by make_value yields over the backing value
ViewOver(o) ==
    CASE o.make = "take" -> Take(o.obj, o.arg)
      [] o.make = "take_while" -> TakeWhileLeq(o.obj, o.arg)
      [] OTHER -> o.obj

At(s, i) == IF i <= Len(s) THEN s[i] ELSE NoItem

InfiniteNever == FALSE

Infinite == kind = "primes_unbounded"

\* the possible results of it.next() (NoItem for None); a read through a
\* reference that is not valid can produce anything
ItNext ==
    IF Infinite THEN {NthPrime(idx + 1)}
    ELSE IF ov.at = "none" THEN {At(src, idx + 1)}
    ELSE IF RefValid(ov) THEN {At(ViewOver(ov), idx + 1)}
    ELSE Items \cup {NoItem}

\* it.next() can be Some(_)
HasNext == \E v \in ItNext : v # NoItem

\* it.next() can be None
AtEnd == NoItem \in ItNext

HasRoomOffByOne == ~Bounded \/ Len(queue) <= cap

HasRoomAlways == TRUE

HasRoomTight == ~Bounded \/ Len(queue) + 1 < cap

\* the bounded channel has room (always true of unbounded())
HasRoom == ~Bounded \/ Len(queue) < cap

\* ---- construction --------------------------------------------------------
InitCommon ==
    /\ pc = "Created" /\ idx = 0 /\ x = NoItem /\ queue = <<>>
    /\ sAlive = TRUE /\ rAlive = TRUE /\ received = <<>>
    /\ closedSeen = FALSE /\ cpc = "idle" /\ joinResult = "none"
    /\ sends = 0 /\ failed = 0 /\ afterDrop = 0

from_iterator_unbounded ==
    /\ kind = "from_iterator_unbounded"
    /\ src \in SeqsUpTo(Items, MaxLen)
    /\ cap = 0 /\ limit = 0
    /\ ov = NoWithObj

from_iterator_bounded ==
    /\ kind = "from_iterator_bounded"
    /\ src \in SeqsUpTo(Items, MaxLen)
    /\ cap \in 1..MaxCap /\ limit = 0
    /\ ov = NoWithObj

primes_unbounded ==
    /\ kind = "primes_unbounded"
    /\ src = <<>> /\ cap = 0 /\ limit = 0
    /\ ov = NoWithObj

primes_bounded_approx_NoTake ==
    /\ kind = "primes_bounded_approx"
    /\ limit \in 0..MaxLimit
    /\ \E high \in 0..MaxHigh, ub \in 0..SieveSlack, a \in Addrs :
          /\ ov = WithObjNew(PrimesUpTo(limit + ub), a, "all", 0)
          /\ src = ViewOver(ov)
          /\ cap = high

primes_bounded_approx_TakeOneMore ==
    /\ kind = "primes_bounded_approx"
    /\ limit \in 0..MaxLimit
    /\ \E high \in 0..MaxHigh, ub \in 0..SieveSlack, a \in Addrs :
          /\ ov = WithObjNew(PrimesUpTo(limit + ub), a, "take", high + 1)
          /\ src = ViewOver(ov)
          /\ cap = high

primes_bounded_approx ==
    /\ kind = "primes_bounded_approx"
    /\ limit \in 0..MaxLimit
    /\ \E high \in 0..MaxHigh, ub \in 0..SieveSlack, a \in Addrs :
          /\ ov = WithObjNew(PrimesUpTo(limit + ub), a, "take", high)
          /\ src = ViewOver(ov)
          /\ cap = high

\* bounded_primes(limit) of the design: the sieve view cut at the first
\* value above limit, through from_iterator_bounded with capacity high, a
\* true upper bound on the number of primes <= limit.
primes_bounded ==
    /\ kind = "primes_bounded"
    /\ limit \in 0..MaxLimit
    /\ \E high \in 0..MaxHigh, ub \in 0..SieveSlack, a \in Addrs :
          /\ high >= Len(PrimesUpTo(limit))
          /\ ov = WithObjNew(PrimesUpTo(limit + ub), a, "take_while", limit)
          /\ src = ViewOver(ov)
          /\ cap = high

Init ==
    /\ InitCommon
    /\ \/ from_iterator_unbounded
       \/ from_iterator_bounded
       \/ primes_unbounded
       \/ primes_bounded_approx
       \/ primes_bounded

\* ---- the caller's handling of the closure --------------------------------
thread_spawn_ThenJoin ==
    /\ pc = "Created"
    /\ pc' = "Next"
    /\ cpc' = "joining"
    /\ ov' = MoveWithObj(ov)
    /\ UNCHANGED <<kind, src, cap, limit, idx, x, queue, sAlive, rAlive,
                   received, closedSeen, joinResult, sends, failed,
                   afterDrop>>

\* thread_spawn((f, x)): thread::spawn(f) starts the closure on a new
\* thread; the handle and x are returned at once
thread_spawn ==
    /\ pc = "Created"
    /\ pc' = "Next"
    /\ ov' = MoveWithObj(ov)
    /\ UNCHANGED <<kind, src, cap, limit, idx, x, queue, sAlive, rAlive,
                   received, closedSeen, cpc, joinResult, sends, failed,
                   afterDrop>>

\* the closure is dropped without being called: `s` and `it` go with it
DropUnitOfWork ==
    /\ pc = "Created"
    /\ pc' = "Discarded"
    /\ sAlive' = FALSE
    /\ ov' = DropWithObj(ov)
    /\ UNCHANGED <<kind, src, cap, limit, idx, x, queue, rAlive, received,
                   closedSeen, cpc, joinResult, sends, failed, afterDrop>>

\* ---- the producer closure ------------------------------------------------
DrawTwo ==
    /\ pc = "Next"
    /\ HasNext
    /\ Infinite => idx < MaxDraw + (IF rAlive THEN 0 ELSE 1)
    /\ idx' = idx + 2
    /\ \E v \in ItNext \ {NoItem} : x' = v
    /\ pc' = "Send"
    /\ afterDrop' = IF rAlive THEN afterDrop ELSE afterDrop + 1
    /\ UNCHANGED <<kind, src, cap, limit, queue, sAlive, rAlive, received,
                   closedSeen, cpc, joinResult, sends, failed,
                   ov>>

\* `for x in it`: it.next() returned Some(x)
Draw ==
    /\ pc = "Next"
    /\ HasNext
    /\ Infinite => idx < MaxDraw + (IF rAlive THEN 0 ELSE 1)
    /\ idx' = idx + 1
    /\ \E v \in ItNext \ {NoItem} : x' = v
    /\ pc' = "Send"
    /\ afterDrop' = IF rAlive THEN afterDrop ELSE afterDrop + 1
    /\ UNCHANGED <<kind, src, cap, limit, queue, sAlive, rAlive, received,
                   closedSeen, cpc, joinResult, sends, failed,
                   ov>>

ExhaustEarly ==
    /\ pc = "Next"
    /\ pc' = "Exhausted"
    /\ sAlive' = FALSE
    /\ ov' = DropWithObj(ov)
    /\ UNCHANGED <<kind, src, cap, limit, idx, x, queue, rAlive, received,
                   closedSeen, cpc, joinResult, sends, failed, afterDrop>>

ExhaustKeepsSender ==
    /\ pc = "Next"
    /\ AtEnd
    /\ pc' = "Exhausted"
    /\ ov' = DropWithObj(ov)
    /\ UNCHANGED <<kind, src, cap, limit, idx, x, queue, sAlive, rAlive,
                   received, closedSeen, cpc, joinResult, sends, failed,
                   afterDrop>>

\* it.next() returned None: the loop ends, the closure returns, `s` drops
Exhaust ==
    /\ pc = "Next"
    /\ AtEnd
    /\ pc' = "Exhausted"
    /\ sAlive' = FALSE
    /\ ov' = DropWithObj(ov)
    /\ UNCHANGED <<kind, src, cap, limit, idx, x, queue, rAlive, received,
                   closedSeen, cpc, joinResult, sends, failed, afterDrop>>

EnqueueFront(q, v) == <<v>> \o q

Enqueue(q, v) == Append(q, v)

SendOkIgnoresDisconnect ==
    /\ pc = "Send"
    /\ HasRoom
    /\ queue' = Enqueue(queue, x)
    /\ x' = NoItem
    /\ sends' = sends + 1
    /\ pc' = "Next"
    /\ UNCHANGED <<kind, src, cap, limit, idx, sAlive, rAlive, received,
                   closedSeen, cpc, joinResult, failed, afterDrop,
                   ov>>

\* s.send(x) returned Ok(()): needs a live receiver and room in the buffer
SendOk ==
    /\ pc = "Send"
    /\ rAlive
    /\ HasRoom
    /\ queue' = Enqueue(queue, x)
    /\ x' = NoItem
    /\ sends' = sends + 1
    /\ pc' = "Next"
    /\ UNCHANGED <<kind, src, cap, limit, idx, sAlive, rAlive, received,
                   closedSeen, cpc, joinResult, failed, afterDrop,
                   ov>>

SendErrContinue ==
    /\ pc = "Send"
    /\ ~rAlive
    /\ x' = NoItem
    /\ failed' = failed + 1
    /\ pc' = "Next"
    /\ UNCHANGED <<kind, src, cap, limit, idx, queue, sAlive, rAlive,
                   received, closedSeen, cpc, joinResult, sends, afterDrop,
                   ov>>

SendErrNeedsRoom ==
    /\ pc = "Send"
    /\ ~rAlive /\ HasRoom
    /\ x' = NoItem
    /\ failed' = failed + 1
    /\ pc' = "Aborted"
    /\ sAlive' = FALSE
    /\ ov' = DropWithObj(ov)
    /\ UNCHANGED <<kind, src, cap, limit, idx, queue, rAlive, received,
                   closedSeen, cpc, joinResult, sends, afterDrop>>

SendErrWhenFull ==
    /\ pc = "Send"
    /\ ~rAlive \/ ~HasRoom
    /\ x' = NoItem
    /\ failed' = failed + 1
    /\ pc' = "Aborted"
    /\ sAlive' = FALSE
    /\ ov' = DropWithObj(ov)
    /\ UNCHANGED <<kind, src, cap, limit, idx, queue, rAlive, received,
                   closedSeen, cpc, joinResult, sends, afterDrop>>

\* s.send(x) returned Err(_): `return`, dropping x, `it` and `s`
SendErr ==
    /\ pc = "Send"
    /\ ~rAlive
    /\ x' = NoItem
    /\ failed' = failed + 1
    /\ pc' = "Aborted"
    /\ sAlive' = FALSE
    /\ ov' = DropWithObj(ov)
    /\ UNCHANGED <<kind, src, cap, limit, idx, queue, rAlive, received,
                   closedSeen, cpc, joinResult, sends, afterDrop>>

\* ---- the caller's use of the Receiver and the JoinHandle -----------------
RecvNewest ==
    /\ cpc = "idle" /\ rAlive
    /\ queue # <<>>
    /\ received' = Append(received, queue[Len(queue)])
    /\ queue' = SubSeq(queue, 1, Len(queue) - 1)
    /\ UNCHANGED <<kind, src, cap, limit, pc, idx, x, sAlive, rAlive,
                   closedSeen, cpc, joinResult, sends, failed, afterDrop,
                   ov>>

\* r.recv() returned Ok(v)
Recv ==
    /\ cpc = "idle" /\ rAlive
    /\ queue # <<>>
    /\ received' = Append(received, Head(queue))
    /\ queue' = Tail(queue)
    /\ UNCHANGED <<kind, src, cap, limit, pc, idx, x, sAlive, rAlive,
                   closedSeen, cpc, joinResult, sends, failed, afterDrop,
                   ov>>

RecvClosedEarly ==
    /\ cpc = "idle" /\ rAlive
    /\ ~sAlive
    /\ closedSeen' = TRUE
    /\ UNCHANGED <<kind, src, cap, limit, pc, idx, x, queue, sAlive, rAlive,
                   received, cpc, joinResult, sends, failed, afterDrop,
                   ov>>

\* r.recv() returned Err(RecvError): buffer empty and the Sender dropped
RecvClosed ==
    /\ cpc = "idle" /\ rAlive
    /\ queue = <<>> /\ ~sAlive
    /\ closedSeen' = TRUE
    /\ UNCHANGED <<kind, src, cap, limit, pc, idx, x, queue, sAlive, rAlive,
                   received, cpc, joinResult, sends, failed, afterDrop,
                   ov>>

\* drop(r)
DropReceiver ==
    /\ cpc = "idle" /\ rAlive
    /\ rAlive' = FALSE
    /\ UNCHANGED <<kind, src, cap, limit, pc, idx, x, queue, sAlive, received,
                   closedSeen, cpc, joinResult, sends, failed, afterDrop,
                   ov>>

\* thread.join() is entered; the handle exists only after thread_spawn
JoinCall ==
    /\ cpc = "idle" /\ joinResult = "none"
    /\ pc \notin {"Created", "Discarded"}
    /\ cpc' = "joining"
    /\ UNCHANGED <<kind, src, cap, limit, pc, idx, x, queue, sAlive, rAlive,
                   received, closedSeen, joinResult, sends, failed, afterDrop,
                   ov>>

\* thread.join() returns once the closure has returned
JoinReturn ==
    /\ cpc = "joining"
    /\ pc \in {"Exhausted", "Aborted"}
    /\ cpc' = "idle"
    /\ joinResult' = "Ok"
    /\ UNCHANGED <<kind, src, cap, limit, pc, idx, x, queue, sAlive, rAlive,
                   received, closedSeen, sends, failed, afterDrop,
                   ov>>

Producer == Draw \/ Exhaust \/ SendOk \/ SendErr

Next ==
    \/ thread_spawn
    \/ DropUnitOfWork
    \/ Draw
    \/ Exhaust
    \/ SendOk
    \/ SendErr
    \/ Recv
    \/ RecvClosed
    \/ DropReceiver
    \/ JoinCall
    \/ JoinReturn

Spec == Init /\ [][Next]_vars

\* The producer runs on its own thread, and join returns when it is done.
FairSpec == Spec /\ WF_vars(Producer) /\ WF_vars(JoinReturn)

\* FairSpec with a caller that keeps calling r.recv() while it can.
DrainSpec == FairSpec /\ WF_vars(Recv) /\ WF_vars(RecvClosed)

\* ---- derived state -------------------------------------------------------
Running == pc \in {"Next", "Send"}
Terminated == pc \in {"Exhausted", "Aborted"}
\* the producer is suspended inside s.send(x) on a full bounded channel
Blocked == pc = "Send" /\ rAlive /\ Bounded /\ Len(queue) >= cap
\* number of primes <= n
PrimeCount(n) == Len(PrimesUpTo(n))

TypeOK ==
    /\ pc \in {"Created", "Next", "Send", "Exhausted", "Aborted", "Discarded"}
    /\ cpc \in {"idle", "joining"}
    /\ joinResult \in {"none", "Ok"}
    /\ idx \in 0..(MaxLen + MaxDraw + MaxHigh + 1)
    /\ sAlive \in BOOLEAN /\ rAlive \in BOOLEAN /\ closedSeen \in BOOLEAN

\* ---- properties ---------------------------------------------------------
BoundedKinds == {"from_iterator_bounded", "primes_bounded_approx",
                 "primes_bounded"}
FiniteKinds == {"from_iterator_unbounded", "from_iterator_bounded",
                "primes_bounded_approx", "primes_bounded"}

\* C1: for a finite sequence through either bridge, once the closure has
\* been run and the caller has received until recv reported the channel
\* closed, the items received are exactly the sequence, in its order.
C1_DrainYieldsSequence ==
    (kind \in FiniteKinds /\ closedSeen /\ pc # "Discarded")
        => received = src

C1_Witness ==
    /\ kind = "from_iterator_bounded" /\ closedSeen /\ pc = "Exhausted"
    /\ Len(src) > cap /\ Len(received) >= 3
    /\ received[1] # received[2]

\* C2: in every state the items received so far are the first items of the
\* sequence, in order (the n-th recv returned the n-th item); for
\* primes_unbounded the first three are 2, 3, 5.
C2_ReceivedIsPrefix ==
    /\ Len(received) <= idx
    /\ \A i \in 1..Len(received) :
          received[i] = IF kind = "primes_unbounded" THEN NthPrime(i)
                        ELSE src[i]
    /\ (kind = "primes_unbounded" /\ Len(received) >= 3)
          => SubSeq(received, 1, 3) = <<2, 3, 5>>

C2_Witness ==
    kind = "primes_unbounded" /\ received = <<2, 3, 5>> /\ Running

\* C3: recv reports closed only after the closure has returned through
\* exhaustion and everything sent has been received (never while the
\* producer is Running or items are buffered); and a caller that keeps
\* receiving from a started producer over a finite sequence eventually sees
\* closed, unless it drops the Receiver or waits in join on a blocked
\* producer.
C3_ClosedOnlyAfterReturn ==
    /\ [](closedSeen =>
             /\ ~Running /\ pc # "Created" /\ ~sAlive
             /\ (pc # "Discarded" => pc = "Exhausted")
             /\ queue = <<>>
             /\ Len(received) = sends /\ x = NoItem)
    /\ ((Running /\ kind \in FiniteKinds)
          ~> (closedSeen \/ ~rAlive \/ (cpc = "joining" /\ Blocked)))

C3_Witness ==
    /\ closedSeen /\ pc = "Exhausted" /\ sends >= 2 /\ Len(received) = sends

\* C4: in both bridges the first send that fails ends the producer: it is
\* Aborted at once, holds no item, and from then on draws nothing and sends
\* nothing (whatever was left in the sequence is never drawn); the closure
\* returns normally, so a join on it yields Ok.
C4_FailedSendTerminates ==
    /\ [](failed >= 1 => (failed = 1 /\ pc = "Aborted" /\ x = NoItem
                             /\ ~sAlive))
    /\ [][failed >= 1 => (idx' = idx /\ sends' = sends /\ failed' = failed
                             /\ queue' = queue /\ pc' = pc)]_vars
    /\ [](pc = "Aborted" => failed = 1)
    /\ [](joinResult # "none" => joinResult = "Ok")
    /\ ((cpc = "joining" /\ pc = "Aborted") ~> joinResult = "Ok")

C4_Witness ==
    /\ kind \in {"from_iterator_unbounded", "from_iterator_bounded"}
    /\ pc = "Aborted" /\ failed = 1 /\ joinResult = "Ok"
    /\ sends >= 1 /\ idx + 2 <= Len(src)

\* C5: for the unbounded bridge over the infinite prime sequence, once the
\* closure runs and the Receiver is dropped the producer terminates and a
\* join on it returns; after the drop it draws at most one more item.
C5_DropCancelsInfiniteProducer ==
    /\ [](afterDrop <= 1)
    /\ ((kind = "primes_unbounded" /\ Running /\ ~rAlive) ~> pc = "Aborted")
    /\ ((kind = "primes_unbounded" /\ cpc = "joining" /\ ~rAlive)
           ~> joinResult = "Ok")

C5_Witness ==
    /\ kind = "primes_unbounded" /\ pc = "Aborted" /\ joinResult = "Ok"
    /\ afterDrop = 1 /\ received = <<>> /\ idx >= 2

\* C6: a bounded channel of capacity c never buffers more than c items, and
\* a send attempted with c items buffered and the Receiver alive does not
\* complete: in that step the producer neither sends, draws, fails nor
\* leaves the send; only a recv (or drop) by the caller ends the wait.
C6_CapacityRespected ==
    /\ [](kind \in BoundedKinds => Len(queue) <= cap)
    /\ [][(kind \in BoundedKinds /\ pc = "Send" /\ rAlive
            /\ Len(queue) = cap /\ rAlive' /\ Len(queue') >= Len(queue))
           => (pc' = "Send" /\ sends' = sends /\ idx' = idx
               /\ failed' = failed /\ x' = x /\ queue' = queue)]_vars
    /\ [](Blocked => (failed = 0 /\ joinResult = "none" /\ sAlive))

C6_Witness ==
    /\ kind = "from_iterator_bounded" /\ Blocked /\ Len(queue) = cap
    /\ Len(received) >= 1 /\ idx < Len(src)

\* C7: bounded bridge, sequence longer than the capacity c (e.g. 5 items,
\* c = 3): while nothing has been received the producer completes at most c
\* sends, and having completed c it is stalled in the next send; the number
\* of completed sends never exceeds c plus the number of items received;
\* a started producer reaches that stall unless the caller receives or
\* drops first; and with a caller that keeps receiving it ends Exhausted,
\* the channel closed and every item delivered.
C7_StallThenComplete ==
    /\ [](kind = "from_iterator_bounded" => sends <= cap + Len(received))
    /\ []((kind = "from_iterator_bounded" /\ Len(src) > cap /\ rAlive
            /\ received = <<>> /\ sends = cap /\ pc = "Send")
           => (Blocked /\ ~ENABLED Producer))
    /\ ((kind = "from_iterator_bounded" /\ Len(src) > cap /\ Running)
          ~> ((Blocked /\ sends = cap) \/ received # <<>> \/ ~rAlive))
    /\ ((kind = "from_iterator_bounded" /\ Len(src) > cap /\ Running)
          ~> \/ (pc = "Exhausted" /\ closedSeen /\ received = src)
             \/ ~rAlive
             \/ (cpc = "joining" /\ Blocked))

C7_Witness ==
    /\ kind = "from_iterator_bounded" /\ Len(src) = 5 /\ cap = 3
    /\ Blocked /\ received = <<>> /\ sends = 3 /\ idx = 4
    /\ cpc = "idle"

\* C8: a producer waiting in a send on a full bounded channel whose
\* Receiver has been dropped does not stay blocked: the send fails and the
\* producer ends Aborted.
C8_DropWakesBlockedSender ==
    /\ []((pc = "Send" /\ ~rAlive) => ENABLED SendErr)
    /\ ((kind = "from_iterator_bounded" /\ pc = "Send"
          /\ Len(queue) >= cap /\ ~rAlive) ~> pc = "Aborted")

C8_Witness ==
    /\ kind = "from_iterator_bounded" /\ pc = "Aborted"
    /\ Len(queue) = cap /\ afterDrop = 0 /\ failed = 1

\* C9: bounded bridge, more items than capacity, Receiver kept but never
\* read: the producer reaches a blocked send, and while the caller neither
\* receives nor drops, it stays blocked: it does not terminate, the Sender
\* stays alive (the channel is not closed) and a join does not return.
C9_StallWithoutConsumer ==
    /\ ((kind = "from_iterator_bounded" /\ Len(src) > cap /\ Running)
          ~> (Blocked \/ received # <<>> \/ ~rAlive))
    /\ [][(Blocked /\ received' = received /\ rAlive')
           => (Blocked' /\ pc' = "Send" /\ sAlive' /\ ~closedSeen'
               /\ joinResult' = "none" /\ failed' = 0)]_vars
    /\ [](Blocked => (~ENABLED Producer /\ ~ENABLED JoinReturn))

C9_Witness ==
    /\ kind = "from_iterator_bounded" /\ Len(src) > cap
    /\ Blocked /\ received = <<>> /\ cpc = "joining" /\ sends = cap

\* C10 as stated: with an estimate below the true prime count and a caller
\* that does not drain, the producer of primes_bounded_approx stalls for
\* channel room, so it never terminates while the Receiver is kept unread.
C10_UnderestimateStalls ==
    (kind = "primes_bounded_approx" /\ cap >= 1 /\ cap < PrimeCount(limit)
     /\ rAlive /\ received = <<>>)
        => ~Terminated

\* C10 amended: the sequence of primes_bounded_approx is cut to high items
\* by take(high) and the capacity is the same high, so even with an
\* estimate below the true prime count and a caller that never drains, the
\* producer is never blocked: it sends at most high items, all of which
\* fit in the channel, and terminates.
C10_UnderestimateTruncates ==
    /\ [](kind = "primes_bounded_approx"
            => (Len(src) <= cap /\ sends <= cap /\ idx <= cap /\ ~Blocked))
    /\ [](kind = "primes_bounded_approx" /\ cap < PrimeCount(limit)
            => src = SubSeq(PrimesUpTo(limit), 1, cap))
    /\ ((kind = "primes_bounded_approx" /\ Running) ~> Terminated)

C10_Witness ==
    /\ kind = "primes_bounded_approx" /\ cap >= 2 /\ cap < PrimeCount(limit)
    /\ rAlive /\ received = <<>> /\ pc = "Exhausted" /\ sends = cap

OwnedKinds == {"primes_bounded_approx", "primes_bounded"}

\* C12: a WithObj built and then moved into the producer thread yields, call
\* after call of next(), the items the same view yields when iterated in
\* place over its backing value: same values, same order, same end.
C12_RelocatedViewSameItems ==
    /\ (kind \in OwnedKinds /\ ov.at = "thread")
          => /\ idx <= Len(src)
             /\ ItNext = {At(src, idx + 1)}
             /\ pc = "Send" => x = src[idx]
             /\ queue \o (IF pc = "Send" THEN <<x>> ELSE <<>>)
                  = SubSeq(src, Len(received) + 1, idx)
    /\ (kind \in OwnedKinds /\ pc = "Exhausted") => idx = Len(src)

C12_Witness ==
    /\ kind = "primes_bounded_approx" /\ ov.at = "thread"
    /\ pc = "Send" /\ idx = 3 /\ x = 5 /\ queue = <<3>>

\* C13: thread_spawn starts the closure on its own thread and returns at
\* once: the step only makes the producer runnable, the caller is not made
\* to wait (it stays free to act even when the closure never ends), and the
\* Receiver handed through is untouched: nothing received, nothing dropped,
\* nothing drawn or sent by the launch itself.
C13_SpawnReturnsAtOnce ==
    /\ [][(pc = "Created" /\ pc' # "Created" /\ pc' # "Discarded")
           => /\ pc' = "Next" /\ cpc = "idle" /\ cpc' = "idle"
              /\ rAlive' = rAlive /\ sAlive' = sAlive /\ queue' = queue
              /\ received' = received /\ closedSeen' = closedSeen
              /\ joinResult' = joinResult /\ idx' = idx /\ x' = x
              /\ sends' = sends /\ failed' = failed]_vars
    /\ [](pc = "Created" => (cpc = "idle" /\ idx = 0 /\ queue = <<>>))
    /\ []((kind = "primes_unbounded" /\ Running /\ rAlive /\ cpc = "idle")
            => ENABLED DropReceiver)

C13_Witness ==
    /\ kind = "primes_unbounded" /\ pc = "Next" /\ idx = 0
    /\ cpc = "idle" /\ rAlive /\ received = <<>> /\ queue = <<>>

\* C14: for primes_unbounded, while the Receiver is alive the producer is
\* never in a terminal state, its Sender stays alive and a join cannot
\* return; it terminates only as Aborted, after the Receiver was dropped.
C14_InfiniteRunsWhileReceiverLives ==
    /\ []((kind = "primes_unbounded" /\ rAlive)
            => (~Terminated /\ joinResult = "none" /\ ~ENABLED JoinReturn
                /\ (pc # "Discarded" => sAlive)))
    /\ []((kind = "primes_unbounded" /\ Terminated)
            => (pc = "Aborted" /\ ~rAlive))
    /\ [][(kind = "primes_unbounded" /\ Running /\ Terminated')
           => ~rAlive]_vars

C14_Witness ==
    /\ kind = "primes_unbounded" /\ rAlive /\ cpc = "joining" /\ Running
    /\ received = <<2, 3, 5>>

\* C15: a started producer is Running (at next() or at send()), Exhausted or
\* Aborted.  It becomes Exhausted only from Running, at next(), with every
\* item of the sequence drawn; it becomes Aborted only from Running, at a
\* send that failed with the Receiver dropped; Running is entered only by
\* the launch; Exhausted and Aborted are never left and in them nothing is
\* drawn or sent.
C15_ProducerStateMachine ==
    /\ [](pc \in {"Created", "Discarded", "Next", "Send", "Exhausted",
                   "Aborted"})
    /\ [][/\ (pc \in {"Exhausted", "Aborted"})
             => (pc' = pc /\ idx' = idx /\ sends' = sends /\ x' = x
                 /\ failed' = failed /\ Len(queue') <= Len(queue))
          /\ (pc' = "Exhausted" /\ pc # "Exhausted")
             => (pc = "Next" /\ kind # "primes_unbounded"
                 /\ idx = Len(src) /\ failed' = failed)
          /\ (pc' = "Aborted" /\ pc # "Aborted")
             => (pc = "Send" /\ ~rAlive /\ failed' = failed + 1)
          /\ (pc \in {"Next", "Send"})
             => pc' \in {"Next", "Send", "Exhausted", "Aborted"}
          /\ (pc' \in {"Next", "Send"} /\ pc \notin {"Next", "Send"})
             => pc = "Created"]_vars

C15_Witness ==
    /\ kind = "from_iterator_unbounded" /\ pc = "Exhausted" /\ ~rAlive
    /\ Len(src) >= 2 /\ idx = Len(src) /\ failed = 0 /\ afterDrop = 0

\* C16: WithObj::new boxes the backing value first and hands make_value a
\* reference to that heap cell; it is allocated once, and as long as the
\* WithObj lives, in the closure or moved to the producer thread, the
\* address the view references is the address of the live boxed value,
\* which never changes and whose content is never replaced.
C16_BackingStoreStable ==
    /\ [](kind \in OwnedKinds <=> ov.at # "none")
    /\ [](ov.at \in {"closure", "thread"}
            => /\ ov.obj_box \in Addrs /\ ov.value = ov.obj_box
               /\ ov.boxLive /\ ov.valueLive /\ ov.allocs = 1)
    /\ [][ov.at # "none"
           => /\ ov'.obj_box = ov.obj_box /\ ov'.value = ov.value
              /\ ov'.obj = ov.obj /\ ov'.allocs = ov.allocs]_vars

C16_Witness ==
    /\ kind = "primes_bounded_approx" /\ ov.at = "thread" /\ pc = "Send"
    /\ idx >= 2 /\ ov.obj_box = 2 /\ ov.value = 2 /\ ov.boxLive

\* C17: whenever a WithObj is destroyed (closure returned after exhaustion,
\* after a failed send, or dropped uncalled) the view is dropped before the
\* box is freed: the box is never freed under a live view, and a live view
\* always references the live box.
C17_ViewDroppedBeforeStore ==
    /\ ~ov.freedUnderView
    /\ ov.valueLive => (ov.boxLive /\ ov.value = ov.obj_box)
    /\ ov.at = "dropped" => (~ov.valueLive /\ ~ov.boxLive)
    /\ (kind \in OwnedKinds /\ pc \in {"Exhausted", "Aborted", "Discarded"})
          => ov.at = "dropped"
    /\ (kind \in OwnedKinds /\ pc \in {"Created", "Next", "Send"})
          => (ov.at \in {"closure", "thread"} /\ ov.valueLive)

C17_Witness ==
    /\ kind = "primes_bounded_approx" /\ pc = "Aborted" /\ idx >= 1
    /\ ov.at = "dropped" /\ ~ov.boxLive /\ ~ov.valueLive

\* C18: from_iterator_bounded(it, bound) with at most bound items: the
\* producer is never blocked in send (a send with the Receiver alive can
\* always complete) and terminates whatever the caller does, even if it
\* never receives; the producer is blocked only with more than bound items.
C18_WithinBoundNeverBlocks ==
    /\ []((kind = "from_iterator_bounded" /\ Len(src) <= cap)
            => /\ ~Blocked
               /\ pc = "Send" => Len(queue) < cap
               /\ (pc = "Send" /\ rAlive) => ENABLED SendOk)
    /\ []((kind = "from_iterator_bounded" /\ Blocked) => Len(src) > cap)
    /\ ((kind = "from_iterator_bounded" /\ Len(src) <= cap /\ Running)
          ~> Terminated)

C18_Witness ==
    /\ kind = "from_iterator_bounded" /\ cap = 3 /\ Len(src) = 3
    /\ pc = "Exhausted" /\ rAlive /\ received = <<>> /\ Len(queue) = 3

\* C19: the producer of primes_bounded_approx draws and sends at most high
\* items (the view is cut to high items, the capacity is high): a send with
\* the Receiver alive can always complete, the producer always terminates,
\* and the caller receives at most high items before the channel closes.
C19_ApproxSendsAtMostHigh ==
    /\ [](kind = "primes_bounded_approx"
            => /\ idx <= cap /\ sends <= cap
               /\ Len(queue) + Len(received) <= cap
               /\ (pc = "Send" /\ rAlive) => ENABLED SendOk
               /\ closedSeen => Len(received) <= cap)
    /\ ((kind = "primes_bounded_approx" /\ Running) ~> Terminated)

C19_Witness ==
    /\ kind = "primes_bounded_approx" /\ cap = 3 /\ Len(ov.obj) > 3
    /\ pc = "Exhausted" /\ closedSeen /\ received = <<2, 3, 5>>

\* C20: in both bridges at most one drawn item is not yet enqueued: the
\* number drawn is the number sent, plus the one held at a send, plus the
\* one a failed send dropped; so at most one item is drawn after drop(r),
\* and an aborted producer has discarded exactly the one item of its failed
\* send besides what is still buffered.
C20_AtMostOneInFlight ==
    /\ idx <= sends + 1
    /\ idx = sends + failed + (IF pc = "Send" THEN 1 ELSE 0)
    /\ sends = Len(queue) + Len(received)
    /\ afterDrop <= 1
    /\ pc = "Aborted" => (idx = sends + 1 /\ idx - Len(received) = Len(queue) + 1)

C20_Witness ==
    /\ kind = "from_iterator_bounded" /\ pc = "Aborted" /\ afterDrop = 1
    /\ Len(queue) >= 2 /\ Len(received) >= 1 /\ idx = sends + 1

====
